---- MODULE Spec2Model ----
(***************************************************************************)
(* A model of launcher.py, the installer/launcher of kohya_ss.             *)
(*                                                                         *)
(* The launcher is one sequential process.  Its state is the position of   *)
(* the run (pc), the exit status, the resolved options, the target         *)
(* directory on disk, the provisioning marker, and the log of the external *)
(* operations (git, pip, HTTP) it has issued.  The outcome of every        *)
(* external operation is an input, drawn with \E where it is issued.       *)
(*                                                                         *)
(* Several specifications share the variables:                             *)
(*   SpecVerb   CountOccurrencesAction on every bounded option value       *)
(*   SpecCfg    load_config on every bounded set of configuration files    *)
(*   SpecPerm   check_permissions over a bounded walk                      *)
(*   SpecDeps   install_python_dependencies called repeatedly              *)
(*   SpecArgs   parse_args on bounded configuration data and command lines *)
(*   SpecAcq    update_kohya_ss called repeatedly on a bounded directory   *)
(*   Spec       a complete run of the __main__ block                       *)
(***************************************************************************)
EXTENDS Integers, Sequences, FiniteSets, TLC

VARIABLES
    pc,           \* position of the process
    exitCode,     \* exit status of the process, NoExit while it runs
    values,       \* the value handed to the verbosity option, NotGiven if absent
    verbosity,    \* namespace.verbosity
    cfg,          \* load_config: the files on disk and the merged result
    perm,         \* check_permissions: the walk and the file visited last
    deps,         \* install_python_dependencies: inputs, marker, operations
    fs,           \* the target directory _dir
    acq,          \* update_kohya_ss: arguments, locals, result
    ops,          \* external operations issued, in order
    run,          \* the __main__ block: options and environment of the run
    args,         \* parse_args: configuration data, command line, namespace
    links         \* setup_file_links: site-packages, links, LD_LIBRARY_PATH

vars == <<pc, exitCode, values, verbosity, cfg, perm, deps, fs, acq, ops, run, args, links>>

NoExit == "running"
ExitOK == "0"
ExitFail == "1"

----------------------------------------------------------------------------
(* Strings are sequences of characters.                                    *)

MaxLen == 3
Chars == {"v", "x", "-", "0", "1", "7"}
Digits == {"0", "1", "7"}

RECURSIVE StringsUpTo(_)
StringsUpTo(n) ==
    IF n = 0 THEN {<<>>}
    ELSE LET shorter == StringsUpTo(n - 1)
         IN  shorter \cup {Append(s, c) : s \in {t \in shorter : Len(t) = n - 1}, c \in Chars}

Strings == StringsUpTo(MaxLen)

DigitVal(c) == CASE c = "0" -> 0 [] c = "1" -> 1 [] c = "7" -> 7

AllIn(s, set) == \A i \in 1..Len(s) : s[i] \in set

(* int(values) raises ValueError unless the string is an optional sign     *)
(* followed by at least one digit.                                         *)
IsIntString(s) ==
    \/ Len(s) >= 1 /\ AllIn(s, Digits)
    \/ Len(s) >= 2 /\ s[1] = "-" /\ AllIn(Tail(s), Digits)

RECURSIVE DigitsValue(_)
DigitsValue(s) ==
    IF s = <<>> THEN 0
    ELSE 10 * DigitsValue(SubSeq(s, 1, Len(s) - 1)) + DigitVal(s[Len(s)])

ParseInt(s) == IF s[1] = "-" THEN 0 - DigitsValue(Tail(s)) ELSE DigitsValue(s)

RECURSIVE CountChar(_, _)
CountChar(s, c) ==
    IF s = <<>> THEN 0
    ELSE (IF Head(s) = c THEN 1 ELSE 0) + CountChar(Tail(s), c)

(* re.search('[^v]', values): some character is not the marker.            *)
HasNonMarker(s) == \E i \in 1..Len(s) : s[i] # "v"

(* CountOccurrencesAction.__call__: the level stored and whether exit(1)   *)
(* was called.                                                             *)
DefaultLevel == 0

MutCountNoNegativeCheck(s) ==
    IF IsIntString(s) THEN [level |-> ParseInt(s), exit |-> FALSE]
    ELSE IF ~HasNonMarker(s)
         THEN [level |-> CountChar(s \o <<"v">>, "v"), exit |-> FALSE]
         ELSE [level |-> DefaultLevel, exit |-> TRUE]

CountOccurrencesAction(s) ==
    IF IsIntString(s)
    THEN [level |-> ParseInt(s), exit |-> ParseInt(s) < 0]
    ELSE IF ~HasNonMarker(s)
         THEN [level |-> CountChar(s \o <<"v">>, "v"), exit |-> FALSE]
         ELSE [level |-> DefaultLevel, exit |-> TRUE]

NotGiven == [given |-> FALSE, s |-> <<>>]
Given(s) == [given |-> TRUE, s |-> s]

----------------------------------------------------------------------------
(* load_config: a configuration file is absent (FileNotFoundError, passed  *)
(* over) or holds a document, a mapping from top-level keys to values; the *)
(* empty document is falsy and is passed over too.                         *)

MaxVal == 2
Vals == 1..MaxVal
Keys == {"setup_arguments", "kohya_gui_arguments"}
NLocations == 3

EmptyDoc == [k \in {} |-> 0]
Documents == UNION {[S -> Vals] : S \in SUBSET Keys}
AbsentFile == [exists |-> FALSE, doc |-> EmptyDoc]
FileContents == {AbsentFile} \cup {[exists |-> TRUE, doc |-> d] : d \in Documents}

Defines(file, k) == file.exists /\ k \in DOMAIN file.doc

(* {**file_config_data, **_config_data}: on a key both define, the right   *)
(* operand, the data merged so far, wins.                                  *)
DictMerge(file_config_data, config_data) ==
    [k \in DOMAIN file_config_data \cup DOMAIN config_data |->
        IF k \in DOMAIN config_data THEN config_data[k] ELSE file_config_data[k]]

MergeFile(file, config_data) ==
    IF ~file.exists \/ DOMAIN file.doc = {}
    THEN config_data
    ELSE DictMerge(file.doc, config_data)

RECURSIVE MergeLocations(_, _)
MergeLocations(files, config_data) ==
    IF files = <<>> THEN config_data
    ELSE MergeLocations(Tail(files), MergeFile(Head(files), config_data))

(* config_file is the file --file names; without --file (_config_file is   *)
(* None) nothing is loaded for it.                                         *)
load_config(found, config_file) ==
    LET discovered == MergeLocations(found, EmptyDoc)
        merged == IF config_file.given
                  THEN MergeFile(config_file.file, discovered)
                  ELSE discovered
    IN  [none |-> DOMAIN merged = {}, doc |-> merged]

NoConfigFile == [given |-> FALSE, file |-> AbsentFile]
IdleCfg == [found |-> <<>>, config_file |-> NoConfigFile,
            result |-> [none |-> TRUE, doc |-> EmptyDoc]]

----------------------------------------------------------------------------
(* check_permissions: a mode is the set of its permission bits.            *)

PermBits == {"S_IRUSR", "S_IWUSR", "S_IXUSR",
             "S_IRGRP", "S_IWGRP", "S_IXGRP",
             "S_IROTH", "S_IWOTH", "S_IXOTH"}
ExecBits == {"S_IXUSR", "S_IXGRP", "S_IXOTH"}

(* The files os.walk yields under venv, in order: the directory relative   *)
(* to venv, the file name, and whether the name ends in .py, .exe or .elf. *)
VenvWalk == <<
    [root |-> "bin", name |-> "python3", ext |-> FALSE],
    [root |-> "bin", name |-> "activate", ext |-> FALSE],
    [root |-> "Lib/site-packages", name |-> "six.py", ext |-> TRUE],
    [root |-> "lib", name |-> "site.py", ext |-> TRUE],
    [root |-> "lib", name |-> "python.cfg", ext |-> FALSE] >>

SkippedRoot(root) == root \in {"Lib/site-packages", "share/doc"}

required_permissions(isExec) == IF isExec THEN PermBits ELSE PermBits \ ExecBits

(* The mode handed to os.chmod: current_permissions | missing_permissions  *)
(* with missing_permissions = required_permissions & ~current_permissions. *)
MutChmodRequiredOnly(current_permissions, required) == required

chmod_mode(current_permissions, required) ==
    current_permissions \cup (required \ current_permissions)

(* "bin" in folder_name, "python" in file_name.                            *)
InBinFolder(f) == f.root = "bin"
PythonInName(f) == f.name \in {"python3", "python.cfg"}

NoVisit == [visited |-> FALSE, file |-> 0, isExec |-> FALSE, pre |-> {}, post |-> {},
            denied |-> FALSE]
IdlePerm == [i |-> 0, last |-> NoVisit, result |-> TRUE]

----------------------------------------------------------------------------
(* install_python_dependencies.                                            *)

(* Lines of requirements.txt.  line.strip().startswith("#"), not           *)
(* line.strip(), re.search(r"#.*kohya_ss.*library", line) and              *)
(* line.replace(".", _dir) are tabulated on the lines used.                *)
ReqLines == {"", "# comment", "# kohya_ss library", "lib # kohya_ss library",
             "pkg", "pkg==1.0", "."}
IsCommentLine(l) == l \in {"# comment", "# kohya_ss library"}
IsBlankLine(l) == l = ""
MarkerSearch(l) == l \in {"# kohya_ss library", "lib # kohya_ss library"}
ReplaceDots(l) ==
    CASE l = "." -> "_dir"
      [] l = "pkg==1.0" -> "pkg==1_dir0"
      [] OTHER -> l

(* The loop over requirements.txt: the lines written to temp_requirements. *)
RECURSIVE ProcessRequirements(_, _)
ProcessRequirements(lines, found_comment) ==
    IF lines = <<>> THEN <<>>
    ELSE LET line == Head(lines) IN
         IF IsCommentLine(line) \/ IsBlankLine(line)
         THEN ProcessRequirements(Tail(lines), found_comment)
         ELSE IF found_comment
         THEN <<ReplaceDots(line)>> \o ProcessRequirements(Tail(lines), FALSE)
         ELSE IF MarkerSearch(line)
         THEN ProcessRequirements(Tail(lines), TRUE)
         ELSE <<line>> \o ProcessRequirements(Tail(lines), FALSE)

Op(op, arg) == [op |-> op, arg |-> arg]

RECURSIVE MapOps(_, _)
MapOps(op, pkgs) ==
    IF pkgs = <<>> THEN <<>> ELSE <<Op(op, Head(pkgs))>> \o MapOps(op, Tail(pkgs))

(* The guard of the early return: the flag file exists and neither update  *)
(* nor repair is set.                                                      *)
MutSkipIgnoresRepair(flagExists, update, repair) == flagExists /\ ~update

SkipInstall(flagExists, update, repair) == flagExists /\ ~(update \/ repair)

(* The platform-specific additions to the manifest.                        *)
PlatformLines(platform) ==
    CASE platform = "macOS-arm64" -> <<"tensorflow-macos", "tensorflow-metal">>
      [] platform = "macOS-x86_64" -> <<"tensorflow">>
      [] OTHER -> <<>>

(* Windows: torch and torchvision are (re)installed when neither is        *)
(* installed or update or repair is set.  Without interactive mode the     *)
(* name choice is never bound, and the test choice == '2' after the torch  *)
(* install raises UnboundLocalError.                                       *)
TorchReinstall(env, update, repair) ==
    env.platform = "Windows" /\ (~env.torch_installed \/ update \/ repair)

TorchOps(interactive, choice) ==
    IF interactive
    THEN <<Op("pip_install", IF choice = "2" THEN "torch2" ELSE "torch1")>>
         \o (IF choice = "2"
             THEN <<Op("pip_install", "triton"), Op("pip_install", "xformers")>>
             ELSE <<>>)
    ELSE <<Op("pip_install", "torch1")>>

(* The body after the early return, as the operations issued in order and  *)
(* whether the flag file was written.  fault names a subprocess call that  *)
(* raises (the executable cannot be started), "none" when none does;       *)
(* "pip_nonzero" is a pip install that runs and exits non-zero, which      *)
(* subprocess.run without check=True returns like any other result.        *)
InstallBody(env, update, repair, interactive, choice, fault) ==
    LET upgrade == <<Op("pip_upgrade", "pip")>>
        manifest == ProcessRequirements(env.requirements.lines, FALSE)
                    \o (IF env.runpod THEN <<"tensorrt">> ELSE <<>>)
                    \o PlatformLines(env.platform)
        uninstall == IF repair
                     THEN MapOps("pip_uninstall", <<"xformers", "torch", "torchvision", "triton">>)
                     ELSE <<>>
        torch == IF TorchReinstall(env, update, repair)
                 THEN TorchOps(interactive, choice) ELSE <<>>
        unbound == TorchReinstall(env, update, repair) /\ ~interactive
        install == IF env.verbosity >= 3
                   THEN <<Op("pip_install_batch", "temp_requirements")>>
                   ELSE MapOps("pip_install", manifest)
    IN  IF fault = "pip_upgrade"
        THEN [ops |-> upgrade, wrote |-> FALSE, error |-> TRUE]
        ELSE IF ~env.requirements.exists
        THEN [ops |-> upgrade, wrote |-> TRUE, error |-> FALSE]
        ELSE IF unbound
        THEN [ops |-> upgrade \o uninstall \o torch, wrote |-> FALSE, error |-> TRUE]
        ELSE IF fault = "pip_install" /\ install # <<>>
        THEN [ops |-> upgrade \o uninstall \o torch \o SubSeq(install, 1, 1),
              wrote |-> FALSE, error |-> TRUE]
        ELSE [ops |-> upgrade \o uninstall \o torch \o install,
              wrote |-> TRUE, error |-> FALSE]

install_python_dependencies(env, flagExists, update, repair, interactive, choice, fault) ==
    IF SkipInstall(flagExists, update, repair)
    THEN [ops |-> <<>>, wrote |-> FALSE, error |-> FALSE]
    ELSE InstallBody(env, update, repair, interactive, choice, fault)

----------------------------------------------------------------------------
(* update_kohya_ss.                                                        *)

(* A source location is the sequence of the pieces of its text, so that    *)
(* str.startswith is a prefix test.                                        *)
DefaultRepo == <<"https://", "github.com/", "bmaltais/", "kohya_ss", ".git">>
DefaultPrefix == <<"https://", "github.com/", "bmaltais/", "kohya_ss">>
ForkRepo == <<"https://", "github.com/", "bmaltais/", "kohya_ss", "_fork", ".git">>
OtherRepo == <<"https://", "example.org/", "me/", "kohya_ss", ".git">>
SshRepo == <<"ssh://", "git@example.org/", "me/", "kohya_ss", ".git">>
LocalRepo == <<"/srv/", "kohya_ss">>
FtpRepo == <<"ftp://", "example.org/", "kohya_ss", ".git">>
EmptyRepo == <<>>
(* main() exits before update_kohya_ss when the source or the branch is    *)
(* empty, so the routine is called with neither.                           *)
Repos == {DefaultRepo, ForkRepo, OtherRepo, SshRepo, LocalRepo, FtpRepo}
DefaultBranch == "master"
Branches == {"master", "dev"}

StartsWith(s, prefix) ==
    Len(s) >= Len(prefix) /\ SubSeq(s, 1, Len(prefix)) = prefix

(* urlparse(_git_repo).scheme, and os.path.isdir(_git_repo) for the rest.  *)
Scheme(repo) ==
    IF repo = <<>> THEN "invalid"
    ELSE CASE repo[1] = "https://" -> "https"
           [] repo[1] = "ssh://" -> "ssh"
           [] repo[1] = "/srv/" -> "local"
           [] OTHER -> "invalid"

(* The target directory: whether it exists, its entries .git, venv and     *)
(* logs, its files with where their content comes from ("none": absent),   *)
(* and whether the work tree holds uncommitted local modifications.        *)
FileNames == {"kohya_gui.py", "notes.txt"}
RepoFiles == {"kohya_gui.py"}
Contents == {"none", "user", "repo", "zip"}
NoFiles == [f \in FileNames |-> "none"]
AbsentDir == [exists |-> FALSE, git |-> FALSE, venv |-> FALSE, logs |-> FALSE,
              files |-> NoFiles, dirty |-> FALSE]
EmptyDir == [AbsentDir EXCEPT !.exists = TRUE]

Flag(b) == IF b THEN 1 ELSE 0

(* len(os.listdir(_dir)) *)
ListdirLen(d) ==
    Flag(d.git) + Flag(d.venv) + Flag(d.logs)
      + Cardinality({f \in FileNames : d.files[f] # "none"})

(* What a successful pull or clone leaves in the work tree, and what the   *)
(* copy of the extracted archive leaves.                                   *)
Checkout(d) ==
    [d EXCEPT !.git = TRUE, !.dirty = FALSE,
              !.files = [f \in FileNames |-> IF f \in RepoFiles THEN "repo" ELSE d.files[f]]]

MutArchiveCopyReplacesTree(d) ==
    [d EXCEPT !.venv = FALSE,
              !.files = [f \in FileNames |-> IF f \in RepoFiles THEN "zip" ELSE "none"]]

ArchiveCopy(d) ==
    [d EXCEPT !.files = [f \in FileNames |-> IF f \in RepoFiles THEN "zip" ELSE d.files[f]]]

(* has_uncommitted_changes: a status query that raises GitCommandError     *)
(* gives None, which counts as no changes.                                 *)
has_uncommitted_changes(d, status) == status = "ok" /\ d.dirty

(* The test of line 742: the clone path is taken with at most one entry in *)
(* the directory.                                                          *)
ClonePath(d) == ListdirLen(d) \in {0, 1} /\ (~d.git \/ d.venv)

(* The condition of the archive fallback.                                  *)
MutFallbackWithoutUpdateTest(d, git_repo, branch, update) ==
    /\ (branch = "" \/ branch = DefaultBranch)
    /\ (git_repo = <<>> \/ StartsWith(git_repo, DefaultPrefix))

FallbackAllowed(d, git_repo, branch, update) ==
    /\ (update \/ ListdirLen(d) = 0 \/ (ListdirLen(d) = 1 /\ d.venv))
    /\ (branch = "" \/ branch = DefaultBranch)
    /\ (git_repo = <<>> \/ StartsWith(git_repo, DefaultPrefix))

max_attempts == 4

NoAcq == [called |-> FALSE, calls |-> 0, git_repo |-> EmptyRepo, branch |-> "", update |-> FALSE,
          attempt |-> 0, tries |-> 0, ret |-> "none", fallback |-> FALSE, probe |-> "none",
          status |-> "none", pre |-> AbsentDir]

----------------------------------------------------------------------------
(* parse_args: the defaults of default_args are overwritten from the       *)
(* configuration data, every option is registered with its default, and    *)
(* argparse reads the command line.                                        *)

MaxRecords == 2
ExitUsage == "2"

(* Two of the options of default_args: a string option and a flag.  The    *)
(* strings "True" and "False" stand for the booleans.                      *)
OptionNames == {"branch", "update"}
IsBool(v) == v \in {"True", "False"}
BuiltinDefault(o) == CASE o = "branch" -> "master" [] o = "update" -> "False"

(* name.lower() on the names used.                                         *)
Lower(name) == IF name = "Update" THEN "update" ELSE name

(* The records of a collection of the configuration file; "quoted" is a    *)
(* string given where a boolean is meant.                                  *)
ConfigRecords ==
    { [name |-> "branch", value |-> "dev"],
      [name |-> "branch", value |-> "main"],
      [name |-> "Update", value |-> "True"],
      [name |-> "update", value |-> "False"],
      [name |-> "update", value |-> "quoted"],
      [name |-> "bogus", value |-> "dev"] }

RECURSIVE RecordLists(_)
RecordLists(n) ==
    IF n = 0 THEN {<<>>}
    ELSE LET shorter == RecordLists(n - 1)
         IN  shorter \cup {Append(l, r) : l \in {t \in shorter : Len(t) = n - 1},
                                          r \in ConfigRecords}

NoConfigData == [none |-> TRUE, setup_arguments |-> <<>>, kohya_gui_arguments |-> <<>>]
ConfigData ==
    {NoConfigData} \cup
    {[none |-> FALSE, setup_arguments |-> su, kohya_gui_arguments |-> gui] :
        su \in RecordLists(MaxRecords), gui \in RecordLists(1)}

(* Lines 297-304 and 306-313: every record whose lowered name is the long  *)
(* name of an option replaces that option's default.                       *)
RECURSIVE ApplyCollection(_, _)
ApplyCollection(defaults, records) ==
    IF records = <<>> THEN defaults
    ELSE LET arg == Head(records)
             updated == IF Lower(arg.name) \in OptionNames
                        THEN [defaults EXCEPT ![Lower(arg.name)] = arg.value]
                        ELSE defaults
         IN  ApplyCollection(updated, Tail(records))

UpdateDefaults(config_data) ==
    IF config_data.none THEN [o \in OptionNames |-> BuiltinDefault(o)]
    ELSE ApplyCollection(
             ApplyCollection([o \in OptionNames |-> BuiltinDefault(o)],
                             config_data.setup_arguments),
             config_data.kohya_gui_arguments)

(* What the command line says of an option: nothing, the bare option, or   *)
(* the option with an argument.                                            *)
NotOnCli == [given |-> FALSE, arg |-> ""]
Bare == [given |-> TRUE, arg |-> ""]
WithArg(a) == [given |-> TRUE, arg |-> a]
CommandLines ==
    [branch : {NotOnCli, WithArg("dev"), WithArg("main")}, update : {NotOnCli, Bare}]

(* Lines 333-347: an option whose default is a bool is registered with     *)
(* store_true when the default is False and store_false otherwise, and     *)
(* takes no argument; any other option stores its argument.  argparse      *)
(* ends the process with status 2 on a command line that does not fit.     *)
ParseOption(default_value, c) ==
    IF ~c.given THEN [value |-> default_value, error |-> FALSE]
    ELSE IF IsBool(default_value)
    THEN IF c.arg = ""
         THEN [value |-> IF default_value = "False" THEN "True" ELSE "False",
               error |-> FALSE]
         ELSE [value |-> default_value, error |-> TRUE]
    ELSE IF c.arg # ""
         THEN [value |-> c.arg, error |-> FALSE]
         ELSE [value |-> default_value, error |-> TRUE]

parse_args(config_data, cli) ==
    LET defaults == UpdateDefaults(config_data)
    IN  [ns |-> [o \in OptionNames |-> ParseOption(defaults[o], cli[o]).value],
         error |-> \E o \in OptionNames : ParseOption(defaults[o], cli[o]).error]

IdleArgs == [config_data |-> NoConfigData,
             cli |-> [branch |-> NotOnCli, update |-> NotOnCli],
             ns |-> [o \in OptionNames |-> BuiltinDefault(o)],
             error |-> FALSE]

----------------------------------------------------------------------------
(* setup_file_links and create_symlinks.                                   *)

(* The three (symlink, target) pairs of lines 487-499, each by the         *)
(* directory under site-packages that holds both of its paths.             *)
LinkPairs == <<"tensorrt", "tensorrt", "cuda_runtime">>

(* What is at the symlink path: nothing, a regular file, a link to the     *)
(* target, a link to another existing file, a link to a missing file.      *)
LinkNodes == {"none", "file", "link_target", "link_other", "link_dangling"}

(* os.path.islink(symlink) *)
IsLink(node) == node \in {"link_target", "link_other", "link_dangling"}

(* create_symlinks: what is at the symlink path afterwards and whether the *)
(* call raised.  os.symlink raises FileExistsError on an existing path and *)
(* FileNotFoundError when the directory of the link does not exist.        *)
create_symlinks(node, target_exists, dir_exists) ==
    IF IsLink(node)
    THEN IF node = "link_target" /\ target_exists
         THEN [node |-> node, raised |-> FALSE]
         ELSE IF target_exists
         THEN [node |-> "link_target", raised |-> FALSE]
         ELSE [node |-> node, raised |-> FALSE]
    ELSE IF node = "file" \/ ~dir_exists
         THEN [node |-> node, raised |-> TRUE]
         ELSE [node |-> "link_target", raised |-> FALSE]

(* Line 485, `if runpod and in_container:`: in_container names the         *)
(* function, which is not called; a function object is true.               *)
LinkCondition(runpod, inside) == runpod /\ TRUE

----------------------------------------------------------------------------
(* Values of the variables a specification does not use.                   *)

NoFlag == [exists |-> FALSE, stamp |-> 0]
NoCall == [called |-> FALSE, update |-> FALSE, repair |-> FALSE, flagBefore |-> NoFlag,
           ops |-> <<>>, wrote |-> FALSE, error |-> FALSE, fault |-> "none",
           interactive |-> FALSE]
IdleEnv == [platform |-> "Linux", requirements |-> [exists |-> FALSE, lines |-> <<>>],
            torch_installed |-> FALSE, runpod |-> FALSE, verbosity |-> 0]
IdleDeps == [env |-> IdleEnv, flag |-> NoFlag, clock |-> 0, last |-> NoCall]
IdleFs == AbsentDir
IdleLinks == [platform |-> "Linux", bnb_source |-> FALSE, bnb_copied |-> FALSE,
              runpod |-> FALSE, inside |-> FALSE,
              dirs |-> [tensorrt |-> FALSE, cuda_runtime |-> FALSE],
              node |-> [i \in 1..3 |-> "none"], pre |-> [i \in 1..3 |-> "none"],
              target |-> [i \in 1..3 |-> FALSE], i |-> 0, ld_path |-> <<>>,
              last |-> [pair |-> 0, pre |-> "none", post |-> "none", raised |-> FALSE]]
IdleAcq == NoAcq
NoOpts == [git_repo |-> EmptyRepo, branch |-> "", update |-> FALSE, repair |-> FALSE,
           no_setup |-> FALSE, setup_only |-> FALSE, skip_space_check |-> FALSE,
           log_dir_given |-> FALSE, runpod |-> FALSE, interactive |-> FALSE]
IdleRun == [started |-> FALSE, opts |-> NoOpts, in_container |-> FALSE, dir0 |-> AbsentDir,
            stages |-> <<>>, update_result |-> "none", brew_ok |-> TRUE, child |-> "none",
            space_folder |-> "none"]

----------------------------------------------------------------------------
(* SpecVerb: the verbosity action applied to every bounded value.          *)

InitVerb ==
    /\ pc = "v_start"
    /\ exitCode = NoExit
    /\ args = IdleArgs /\ links = IdleLinks
    /\ values \in {Given(s) : s \in Strings}
    /\ verbosity = DefaultLevel
    /\ cfg = IdleCfg /\ perm = IdlePerm /\ deps = IdleDeps
    /\ fs = IdleFs /\ acq = IdleAcq /\ ops = <<>> /\ run = IdleRun

ApplyVerbosity ==
    /\ pc = "v_start"
    /\ LET r == CountOccurrencesAction(values.s)
       IN  /\ verbosity' = r.level
           /\ exitCode' = IF r.exit THEN ExitFail ELSE NoExit
    /\ pc' = "v_done"
    /\ UNCHANGED <<values, cfg, perm, deps, fs, acq, ops, run, args, links>>

NextVerb == ApplyVerbosity

SpecVerb == InitVerb /\ [][NextVerb]_vars

----------------------------------------------------------------------------
(* SpecCfg: load_config on every bounded set of files.                     *)

InitCfg ==
    /\ pc = "cfg_start"
    /\ exitCode = NoExit
    /\ args = IdleArgs /\ links = IdleLinks
    /\ values = NotGiven /\ verbosity = DefaultLevel
    /\ \E found \in [1..NLocations -> FileContents],
          config_file \in {NoConfigFile} \cup {[given |-> TRUE, file |-> f] : f \in FileContents} :
            cfg = [found |-> found, config_file |-> config_file,
                   result |-> [none |-> TRUE, doc |-> EmptyDoc]]
    /\ perm = IdlePerm /\ deps = IdleDeps
    /\ fs = IdleFs /\ acq = IdleAcq /\ ops = <<>> /\ run = IdleRun

LoadConfig ==
    /\ pc = "cfg_start"
    /\ cfg' = [cfg EXCEPT !.result = load_config(cfg.found, cfg.config_file)]
    /\ pc' = "cfg_done"
    /\ UNCHANGED <<exitCode, values, verbosity, perm, deps, fs, acq, ops, run, args, links>>

NextCfg == LoadConfig

SpecCfg == InitCfg /\ [][NextCfg]_vars

----------------------------------------------------------------------------
(* SpecArgs: parse_args on every bounded configuration and command line.   *)

InitArgs ==
    /\ pc = "pa_start"
    /\ exitCode = NoExit
    /\ values = NotGiven /\ verbosity = DefaultLevel
    /\ cfg = IdleCfg /\ perm = IdlePerm /\ deps = IdleDeps
    /\ fs = IdleFs /\ acq = IdleAcq /\ ops = <<>> /\ run = IdleRun
    /\ \E config_data \in ConfigData, cli \in CommandLines :
        args = [IdleArgs EXCEPT !.config_data = config_data, !.cli = cli]
    /\ links = IdleLinks

ParseCommandLine ==
    /\ pc = "pa_start"
    /\ LET r == parse_args(args.config_data, args.cli)
       IN  /\ args' = [args EXCEPT !.ns = r.ns, !.error = r.error]
           /\ exitCode' = IF r.error THEN ExitUsage ELSE NoExit
    /\ pc' = "pa_done"
    /\ UNCHANGED <<values, verbosity, cfg, perm, deps, fs, acq, ops, run, links>>

NextArgs == ParseCommandLine

SpecArgs == InitArgs /\ [][NextArgs]_vars

----------------------------------------------------------------------------
(* SpecPerm: check_permissions walking the files of venv.  os.stat, the    *)
(* MIME guess and the outcome of os.chmod are inputs.                      *)

InitPerm ==
    /\ pc = "cp_walk"
    /\ exitCode = NoExit
    /\ args = IdleArgs /\ links = IdleLinks
    /\ values = NotGiven /\ verbosity = DefaultLevel
    /\ cfg = IdleCfg
    /\ perm = [i |-> 1, last |-> NoVisit, result |-> TRUE]
    /\ deps = IdleDeps
    /\ fs = IdleFs /\ acq = IdleAcq /\ ops = <<>> /\ run = IdleRun

(* root.startswith(<venv>/Lib/site-packages) or <venv>/share/doc: continue *)
CP_SkipRoot ==
    /\ pc = "cp_walk"
    /\ perm.i <= Len(VenvWalk)
    /\ SkippedRoot(VenvWalk[perm.i].root)
    /\ perm' = [perm EXCEPT !.i = @ + 1]
    /\ UNCHANGED <<pc, exitCode, values, verbosity, cfg, deps, fs, acq, ops, run, args, links>>

Visit(i, isExec, pre, post, denied) ==
    [visited |-> TRUE, file |-> i, isExec |-> isExec, pre |-> pre, post |-> post,
     denied |-> denied]

CP_VisitFile ==
    /\ pc = "cp_walk"
    /\ perm.i <= Len(VenvWalk)
    /\ ~SkippedRoot(VenvWalk[perm.i].root)
    /\ \E current_permissions \in SUBSET PermBits,
          mimeExec \in IF VenvWalk[perm.i].ext THEN {FALSE} ELSE BOOLEAN,
          chmodDenied \in BOOLEAN :
        LET f == VenvWalk[perm.i]
            isExec == mimeExec \/ f.ext
            required == required_permissions(isExec)
            missing_permissions == required \ current_permissions
        IN  IF missing_permissions = {}
            THEN /\ perm' = [perm EXCEPT !.i = @ + 1,
                                 !.last = Visit(perm.i, isExec, current_permissions,
                                                current_permissions, FALSE)]
                 /\ pc' = pc
            ELSE IF ~chmodDenied
            THEN /\ perm' = [perm EXCEPT !.i = @ + 1,
                                 !.last = Visit(perm.i, isExec, current_permissions,
                                                chmod_mode(current_permissions, required), FALSE)]
                 /\ pc' = pc
            ELSE IF ~InBinFolder(f) /\ ~PythonInName(f)
            THEN /\ perm' = [perm EXCEPT !.result = FALSE,
                                 !.last = Visit(perm.i, isExec, current_permissions,
                                                current_permissions, TRUE)]
                 /\ pc' = "cp_done"
            ELSE /\ perm' = [perm EXCEPT !.i = @ + 1,
                                 !.last = Visit(perm.i, isExec, current_permissions,
                                                current_permissions, TRUE)]
                 /\ pc' = pc
    /\ UNCHANGED <<exitCode, values, verbosity, cfg, deps, fs, acq, ops, run, args, links>>

CP_Return ==
    /\ pc = "cp_walk"
    /\ perm.i > Len(VenvWalk)
    /\ perm' = [perm EXCEPT !.result = TRUE]
    /\ pc' = "cp_done"
    /\ UNCHANGED <<exitCode, values, verbosity, cfg, deps, fs, acq, ops, run, args, links>>

NextPerm == CP_SkipRoot \/ CP_VisitFile \/ CP_Return

SpecPerm == InitPerm /\ [][NextPerm]_vars

----------------------------------------------------------------------------
(* SpecDeps: install_python_dependencies called up to MaxCalls times in an *)
(* environment fixed at the start; the flags of each call are inputs.      *)

MaxCalls == 2
Platforms == {"Linux", "macOS-arm64", "macOS-x86_64", "Windows"}
VerbosityLevels == {0, 2, 3}
RequirementsFiles ==
    { [exists |-> FALSE, lines |-> <<>>],
      [exists |-> TRUE, lines |-> <<"pkg">>],
      [exists |-> TRUE, lines |-> <<"# comment", "pkg", "pkg==1.0">>],
      [exists |-> TRUE, lines |-> <<"pkg", "", "# kohya_ss library", ".">>],
      [exists |-> TRUE, lines |-> <<"lib # kohya_ss library", ".", "pkg==1.0">>] }
Faults == {"none", "pip_upgrade", "pip_install", "pip_nonzero"}

InitDeps ==
    /\ pc = "deps_idle"
    /\ exitCode = NoExit
    /\ args = IdleArgs /\ links = IdleLinks
    /\ values = NotGiven /\ verbosity = DefaultLevel
    /\ cfg = IdleCfg /\ perm = IdlePerm
    /\ \E platform \in Platforms, requirements \in RequirementsFiles,
          torch_installed \in BOOLEAN, runpod \in BOOLEAN, level \in VerbosityLevels,
          flagExists \in BOOLEAN :
            deps = [env |-> [platform |-> platform, requirements |-> requirements,
                             torch_installed |-> torch_installed, runpod |-> runpod,
                             verbosity |-> level],
                    flag |-> [exists |-> flagExists, stamp |-> 0],
                    clock |-> 0,
                    last |-> NoCall]
    /\ fs = IdleFs /\ acq = IdleAcq /\ ops = <<>> /\ run = IdleRun

InstallDeps ==
    /\ pc = "deps_idle"
    /\ deps.clock < MaxCalls
    /\ \E update \in BOOLEAN, repair \in BOOLEAN, interactive \in BOOLEAN,
          choice \in {"1", "2"}, fault \in Faults :
        LET r == install_python_dependencies(deps.env, deps.flag.exists, update, repair,
                                             interactive, choice, fault)
        IN  deps' = [deps EXCEPT
                        !.clock = @ + 1,
                        !.flag = IF r.wrote THEN [exists |-> TRUE, stamp |-> deps.clock + 1]
                                 ELSE @,
                        !.last = [called |-> TRUE, update |-> update, repair |-> repair,
                                  flagBefore |-> deps.flag, ops |-> r.ops,
                                  wrote |-> r.wrote, error |-> r.error,
                                  fault |-> fault, interactive |-> interactive]]
    /\ UNCHANGED <<pc, exitCode, values, verbosity, cfg, perm, fs, acq, ops, run, args, links>>

NextDeps == InstallDeps

SpecDeps == InitDeps /\ [][NextDeps]_vars

----------------------------------------------------------------------------
(* update_kohya_ss, step by step.  fs is _dir, acq holds the arguments and *)
(* the locals, ops the external operations issued by the call.  The steps  *)
(* are shared by SpecAcq and by the complete run.                          *)

others == <<exitCode, values, verbosity, cfg, perm, deps, run, args, links>>

(* Lines 677-680 and 796-803, 827-830: os.listdir(_dir) raises when _dir   *)
(* does not exist; is_git_installed() lets CalledProcessError through when *)
(* git --version exits non-zero; without git the VCS path is left.         *)
UK_Enter ==
    /\ pc = "uk_start"
    /\ IF ~fs.exists
       THEN /\ acq' = [acq EXCEPT !.ret = "raised"]
            /\ pc' = "uk_ret"
            /\ ops' = ops
       ELSE \E probe \in {"notfound", "ok", "nonzero"} :
            /\ ops' = Append(ops, Op("git", "version"))
            /\ acq' = [acq EXCEPT !.probe = probe,
                                  !.ret = IF probe = "nonzero" THEN "raised" ELSE @,
                                  !.fallback = (probe = "notfound")]
            /\ pc' = CASE probe = "ok" -> "uk_attempt"
                       [] probe = "notfound" -> "uk_fallback"
                       [] probe = "nonzero" -> "uk_ret"
    /\ UNCHANGED <<fs, others>>

(* git_operations_with_credentials raises before its try block: ValueError *)
(* for a source that is neither https, ssh nor a local directory, or the   *)
(* error of a failed ssh key lookup.  The caller's except clause takes it. *)
UK_SourceRejected ==
    /\ pc = "uk_attempt"
    /\ acq.attempt < max_attempts
    /\ Scheme(acq.git_repo) \in {"invalid", "ssh"}
    /\ acq' = [acq EXCEPT !.fallback = TRUE, !.tries = @ + 1]
    /\ pc' = "uk_fallback"
    /\ UNCHANGED <<fs, ops, others>>

(* .git present, update not requested: UpdateSkippedException, reported as *)
(* success.                                                                *)
UK_Skip ==
    /\ pc = "uk_attempt"
    /\ acq.attempt < max_attempts
    /\ Scheme(acq.git_repo) # "invalid"
    /\ fs.git /\ ~acq.update
    /\ acq' = [acq EXCEPT !.ret = "true", !.tries = @ + 1]
    /\ pc' = "uk_ret"
    /\ UNCHANGED <<fs, ops, others>>

(* .git present, update requested: the status query, then the pull.        *)
UK_Pull ==
    /\ pc = "uk_attempt"
    /\ acq.attempt < max_attempts
    /\ Scheme(acq.git_repo) # "invalid"
    /\ fs.git /\ acq.update
    /\ \E status \in {"ok", "error"}, outcome \in {"ok", "auth", "error"} :
        IF has_uncommitted_changes(fs, status)
        THEN /\ ops' = Append(ops, Op("git", "status"))
             /\ acq' = [acq EXCEPT !.status = status, !.tries = @ + 1, !.ret = "false"]
             /\ pc' = "uk_ret"
             /\ fs' = fs
        ELSE /\ ops' = ops \o <<Op("git", "status"), Op("git", "pull")>>
                           \o (IF outcome = "auth" THEN <<Op("prompt", "credentials")>> ELSE <<>>)
             /\ acq' = [acq EXCEPT !.status = status, !.tries = @ + 1,
                                   !.ret = IF outcome = "ok" THEN "true" ELSE @,
                                   !.attempt = IF outcome = "auth" THEN @ + 1 ELSE @,
                                   !.fallback = (outcome = "error")]
             /\ pc' = CASE outcome = "ok" -> "uk_ret"
                        [] outcome = "auth" -> "uk_attempt"
                        [] outcome = "error" -> "uk_fallback"
             /\ fs' = IF outcome = "ok" THEN Checkout(fs) ELSE fs
    /\ UNCHANGED others

(* No .git and at most one entry: venv is moved aside, the clone runs, and *)
(* venv is moved back after a clone that succeeded.  git refuses to clone  *)
(* into a directory that is not empty.                                     *)
UK_Clone ==
    /\ pc = "uk_attempt"
    /\ acq.attempt < max_attempts
    /\ Scheme(acq.git_repo) # "invalid"
    /\ ~fs.git /\ ClonePath(fs)
    /\ LET aside == [fs EXCEPT !.venv = FALSE]
       IN  \E outcome \in IF ListdirLen(aside) > 0 THEN {"error"} ELSE {"ok", "auth", "error"} :
            /\ ops' = ops \o <<Op("git", "clone")>>
                          \o (IF outcome = "auth" THEN <<Op("prompt", "credentials")>> ELSE <<>>)
            /\ acq' = [acq EXCEPT !.tries = @ + 1, !.ret = IF outcome = "ok" THEN "true" ELSE @,
                                  !.attempt = IF outcome = "auth" THEN @ + 1 ELSE @,
                                  !.fallback = (outcome = "error")]
            /\ pc' = CASE outcome = "ok" -> "uk_ret"
                       [] outcome = "auth" -> "uk_attempt"
                       [] outcome = "error" -> "uk_fallback"
            /\ fs' = IF outcome = "ok" THEN [Checkout(aside) EXCEPT !.venv = fs.venv] ELSE aside
    /\ UNCHANGED others

(* No .git and more than one entry: the inner routine logs and ends        *)
(* without a result; unpacking None raises TypeError, which the caller's   *)
(* except clause takes.                                                    *)
UK_NoResult ==
    /\ pc = "uk_attempt"
    /\ acq.attempt < max_attempts
    /\ Scheme(acq.git_repo) # "invalid"
    /\ ~fs.git /\ ~ClonePath(fs)
    /\ acq' = [acq EXCEPT !.fallback = TRUE, !.tries = @ + 1]
    /\ pc' = "uk_fallback"
    /\ UNCHANGED <<fs, ops, others>>

(* The loop ends after max_attempts authentication failures.               *)
UK_Exhausted ==
    /\ pc = "uk_attempt"
    /\ acq.attempt = max_attempts
    /\ acq' = [acq EXCEPT !.fallback = TRUE]
    /\ pc' = "uk_fallback"
    /\ UNCHANGED <<fs, ops, others>>

(* Lines 832-847, 905-914: the test of the archive fallback.  With an      *)
(* empty source get_latest_tag raises before any request is made.          *)
UK_Fallback ==
    /\ pc = "uk_fallback"
    /\ IF FallbackAllowed(fs, acq.git_repo, acq.branch, acq.update) /\ acq.git_repo # <<>>
       THEN /\ pc' = "uk_tag"
            /\ acq' = acq
       ELSE /\ pc' = "uk_ret"
            /\ acq' = [acq EXCEPT !.ret = "false"]
    /\ UNCHANGED <<fs, ops, others>>

(* get_latest_tag: the release query.                                      *)
UK_LatestTag ==
    /\ pc = "uk_tag"
    /\ \E outcome \in {"ok", "fail"} :
        /\ ops' = Append(ops, Op("http", "release_query"))
        /\ pc' = IF outcome = "ok" THEN "uk_download" ELSE "uk_ret"
        /\ acq' = [acq EXCEPT !.ret = IF outcome = "ok" THEN @ ELSE "false"]
    /\ UNCHANGED <<fs, others>>

(* Lines 850-903: the archive is downloaded, extracted, and its files are  *)
(* moved over the target directory.                                        *)
UK_Download ==
    /\ pc = "uk_download"
    /\ \E outcome \in {"ok", "fail"} :
        /\ ops' = ops \o <<Op("http", "archive_download")>>
                      \o (IF outcome = "ok" THEN <<Op("fs", "archive_copy")>> ELSE <<>>)
        /\ fs' = IF outcome = "ok" THEN ArchiveCopy(fs) ELSE fs
        /\ acq' = [acq EXCEPT !.ret = IF outcome = "ok" THEN "true" ELSE "false"]
    /\ pc' = "uk_ret"
    /\ UNCHANGED others

UpdateSteps ==
    \/ UK_Enter \/ UK_SourceRejected \/ UK_Skip \/ UK_Pull \/ UK_Clone
    \/ UK_NoResult \/ UK_Exhausted \/ UK_Fallback \/ UK_LatestTag \/ UK_Download

----------------------------------------------------------------------------
(* SpecAcq: update_kohya_ss called up to MaxAcqCalls times in a row with   *)
(* the same arguments, from every bounded state of the target directory.   *)

MaxAcqCalls == 2

DirStates ==
    {AbsentDir} \cup
    {d \in {[exists |-> TRUE, git |-> g, venv |-> v, logs |-> l, files |-> fl, dirty |-> m] :
                g \in BOOLEAN, v \in BOOLEAN, l \in BOOLEAN,
                fl \in [FileNames -> {"none", "user"}], m \in BOOLEAN} :
        d.dirty => d.git}

InitAcq ==
    /\ pc = "uk_idle"
    /\ exitCode = NoExit
    /\ args = IdleArgs /\ links = IdleLinks
    /\ values = NotGiven /\ verbosity = DefaultLevel
    /\ cfg = IdleCfg /\ perm = IdlePerm /\ deps = IdleDeps
    /\ fs \in DirStates
    /\ \E git_repo \in Repos, branch \in Branches, update \in BOOLEAN :
        acq = [NoAcq EXCEPT !.git_repo = git_repo, !.branch = branch, !.update = update]
    /\ ops = <<>>
    /\ run = IdleRun

UK_Call ==
    /\ pc \in {"uk_idle", "uk_ret"}
    /\ acq.calls < MaxAcqCalls
    /\ acq' = [acq EXCEPT !.called = TRUE, !.calls = @ + 1, !.attempt = 0, !.tries = 0, !.ret = "none",
                          !.fallback = FALSE, !.probe = "none", !.status = "none",
                          !.pre = fs]
    /\ ops' = <<>>
    /\ pc' = "uk_start"
    /\ UNCHANGED <<fs, others>>

NextAcq == UK_Call \/ UpdateSteps

SpecAcq == InitAcq /\ [][NextAcq]_vars

----------------------------------------------------------------------------
(* SpecLinks: setup_file_links on every state of the three pairs.  inside  *)
(* is what in_container() would return.                                    *)

InitLinks ==
    /\ pc = "sfl_start"
    /\ exitCode = NoExit
    /\ args = IdleArgs
    /\ values = NotGiven /\ verbosity = DefaultLevel
    /\ cfg = IdleCfg /\ perm = IdlePerm /\ deps = IdleDeps
    /\ fs = IdleFs /\ acq = IdleAcq /\ ops = <<>> /\ run = IdleRun
    /\ \E platform \in {"Linux", "Windows"}, bnb_source \in BOOLEAN,
          runpod \in BOOLEAN, inside \in BOOLEAN,
          tensorrt \in BOOLEAN, cuda_runtime \in BOOLEAN,
          node \in [1..3 -> LinkNodes], target \in [1..3 -> BOOLEAN] :
        LET dirs == [tensorrt |-> tensorrt, cuda_runtime |-> cuda_runtime]
        IN  /\ \A i \in 1..3 : ~dirs[LinkPairs[i]] => (node[i] = "none" /\ ~target[i])
            /\ links = [IdleLinks EXCEPT !.platform = platform, !.bnb_source = bnb_source,
                                         !.runpod = runpod, !.inside = inside,
                                         !.dirs = dirs, !.node = node, !.pre = node,
                                         !.target = target]

(* Lines 455-485: the bitsandbytes files are copied on Windows when the    *)
(* source folder exists; then the test of line 485.                        *)
SFL_Enter ==
    /\ pc = "sfl_start"
    /\ links' = [links EXCEPT
                    !.bnb_copied = (links.platform = "Windows" /\ links.bnb_source),
                    !.i = 1]
    /\ pc' = IF LinkCondition(links.runpod, links.inside) THEN "sfl_link" ELSE "sfl_done"
    /\ UNCHANGED <<exitCode, values, verbosity, cfg, perm, deps, fs, acq, ops, run, args>>

(* Lines 497-499: one create_symlinks call; an exception leaves            *)
(* setup_file_links.                                                       *)
SFL_Link ==
    /\ pc = "sfl_link"
    /\ links.i <= Len(LinkPairs)
    /\ LET i == links.i
           r == create_symlinks(links.node[i], links.target[i], links.dirs[LinkPairs[i]])
       IN  /\ links' = [links EXCEPT
                           !.node[i] = r.node,
                           !.i = @ + 1,
                           !.last = [pair |-> i, pre |-> links.node[i], post |-> r.node,
                                     raised |-> r.raised]]
           /\ pc' = IF r.raised THEN "sfl_raised"
                    ELSE IF i = Len(LinkPairs) THEN "sfl_path" ELSE "sfl_link"
    /\ UNCHANGED <<exitCode, values, verbosity, cfg, perm, deps, fs, acq, ops, run, args>>

(* Lines 501-511: each directory that exists is appended to                *)
(* LD_LIBRARY_PATH.                                                        *)
SFL_Path ==
    /\ pc = "sfl_path"
    /\ links' = [links EXCEPT
                    !.ld_path = (IF links.dirs.tensorrt THEN <<"tensorrt">> ELSE <<>>)
                                \o (IF links.dirs.cuda_runtime THEN <<"cuda_runtime">>
                                    ELSE <<>>)]
    /\ pc' = "sfl_done"
    /\ UNCHANGED <<exitCode, values, verbosity, cfg, perm, deps, fs, acq, ops, run, args>>

NextLinks == SFL_Enter \/ SFL_Link \/ SFL_Path

SpecLinks == InitLinks /\ [][NextLinks]_vars

----------------------------------------------------------------------------
(* Spec: a complete run of the __main__ block.  run.stages lists the       *)
(* stages entered, ops the operations update_kohya_ss issued.              *)

RunValues == {NotGiven, Given(<<"v", "v", "v">>),
              Given(<<"-", "1">>), Given(<<"x">>), Given(<<"v", "-">>)}
RunRepos == {DefaultRepo, ForkRepo, FtpRepo, EmptyRepo}
RunPlatforms == {"Linux", "macOS-arm64"}
RunDirs ==
    { AbsentDir, EmptyDir,
      [EmptyDir EXCEPT !.git = TRUE, !.venv = TRUE, !.logs = TRUE,
                       !.files = [f \in FileNames |-> IF f \in RepoFiles THEN "repo" ELSE "none"]],
      [EmptyDir EXCEPT !.git = TRUE, !.dirty = TRUE,
                       !.files = [f \in FileNames |-> IF f \in RepoFiles THEN "user" ELSE "none"]] }
RunEnv == [platform |-> "Linux", requirements |-> [exists |-> TRUE, lines |-> <<"pkg">>],
           torch_installed |-> FALSE, runpod |-> FALSE, verbosity |-> 0]

Stage(name) == run' = [run EXCEPT !.stages = Append(@, name)]
Exit(code) == pc' = "exited" /\ exitCode' = code

Init ==
    /\ pc = "start"
    /\ exitCode = NoExit
    /\ args = IdleArgs /\ links = IdleLinks
    /\ values \in RunValues
    /\ verbosity = DefaultLevel
    /\ cfg = IdleCfg /\ perm = IdlePerm
    /\ \E flagExists \in BOOLEAN :
        deps = [IdleDeps EXCEPT !.env = RunEnv, !.flag = [exists |-> flagExists, stamp |-> 0]]
    /\ fs \in RunDirs
    /\ acq = NoAcq
    /\ ops = <<>>
    /\ \E git_repo \in RunRepos, branch \in Branches, update \in BOOLEAN,
          no_setup \in BOOLEAN, setup_only \in BOOLEAN, skip_space_check \in BOOLEAN,
          log_dir_given \in BOOLEAN, in_container \in BOOLEAN :
        run = [IdleRun EXCEPT
                 !.started = TRUE,
                 !.opts = [NoOpts EXCEPT !.git_repo = git_repo, !.branch = branch,
                                         !.update = update, !.no_setup = no_setup,
                                         !.setup_only = setup_only,
                                         !.skip_space_check = skip_space_check,
                                         !.log_dir_given = log_dir_given],
                 !.in_container = in_container,
                 !.dir0 = fs]

(* Lines 1507-1509: parse_args; the verbosity action calls exit(1) on a    *)
(* value it rejects, and line 350 converts the stored value to int.        *)
ParseArgs ==
    /\ pc = "start"
    /\ IF values.given
       THEN LET r == CountOccurrencesAction(values.s)
            IN  IF r.exit
                THEN Exit(ExitFail) /\ verbosity' = verbosity
                ELSE pc' = "logs" /\ verbosity' = r.level /\ exitCode' = exitCode
       ELSE pc' = "logs" /\ verbosity' = DefaultLevel /\ exitCode' = exitCode
    /\ UNCHANGED <<values, cfg, perm, deps, fs, acq, ops, run, args, links>>

(* Lines 1527-1549, get_logs_dir: without --log-dir the log directory is   *)
(* <dir>/logs, and os.makedirs creates it with the directories above it.   *)
LogsDir ==
    /\ pc = "logs"
    /\ fs' = IF run.opts.log_dir_given THEN fs
             ELSE [fs EXCEPT !.exists = TRUE, !.logs = TRUE]
    /\ pc' = "exclusive"
    /\ UNCHANGED <<exitCode, values, verbosity, cfg, perm, deps, acq, ops, run, args, links>>

(* Lines 1551-1554: getattr(args, 'no-setup') is True and args.setup_only. *)
MutExclusiveNever(no_setup, setup_only) == FALSE

ExclusiveOptions(no_setup, setup_only) == no_setup /\ setup_only

MutuallyExclusive ==
    /\ pc = "exclusive"
    /\ IF ExclusiveOptions(run.opts.no_setup, run.opts.setup_only)
       THEN Exit(ExitFail)
       ELSE pc' = "prereq" /\ exitCode' = exitCode
    /\ UNCHANGED <<values, verbosity, cfg, perm, deps, fs, acq, ops, run, args, links>>

(* Lines 1571-1580: no usable python binary, or an interpreter that is not *)
(* Python 3.10.                                                            *)
Prerequisites ==
    /\ pc = "prereq"
    /\ \E python_ok \in BOOLEAN :
        IF python_ok THEN pc' = "venv" /\ exitCode' = exitCode
        ELSE Exit(ExitFail)
    /\ UNCHANGED <<values, verbosity, cfg, perm, deps, fs, acq, ops, run, args, links>>

(* Lines 1583-1609: outside a container the venv is created under <dir>    *)
(* (the exit status of python -m venv is not looked at) and                *)
(* check_permissions runs, its result dropped.                             *)
CreateVenv ==
    /\ pc = "venv"
    /\ IF run.in_container
       THEN fs' = fs /\ run' = run
       ELSE /\ \E created \in BOOLEAN :
                 fs' = IF created THEN [fs EXCEPT !.exists = TRUE, !.venv = TRUE] ELSE fs
            /\ run' = [run EXCEPT !.stages = @ \o <<"venv_create", "check_permissions">>]
    /\ pc' = "dispatch"
    /\ UNCHANGED <<exitCode, values, verbosity, cfg, perm, deps, acq, ops, args, links>>

(* Lines 1611-1615: getattr(args, 'no-setup') and not                      *)
(* getattr(args, 'setup_only') sends the run to launch_kohya_gui, anything *)
(* else to main.                                                           *)
MutSkipSetupNever(no_setup, setup_only) == FALSE

SkipSetup(no_setup, setup_only) == no_setup /\ ~setup_only

Dispatch ==
    /\ pc = "dispatch"
    /\ pc' = IF SkipSetup(run.opts.no_setup, run.opts.setup_only) THEN "launch" ELSE "main"
    /\ UNCHANGED <<exitCode, values, verbosity, cfg, perm, deps, fs, acq, ops, run, args, links>>

(* A Python value is a string here, "True" and "False" standing for the    *)
(* booleans; "dir" and "parent_dir" name the installation directory and    *)
(* the directory above it, both existing by the time of the check.         *)
BoolStr(b) == IF b THEN "True" ELSE "False"
Truthy(v) == v \notin {"", "False"}
IsDir(v) == v \in {"dir", "parent_dir"}

(* size_available: the folder whose free space is measured.                *)
size_available(dir, parent_dir) ==
    IF IsDir(dir) THEN dir ELSE IF IsDir(parent_dir) THEN parent_dir ELSE "root"

(* check_storage_space(_dir, parent_dir, space_check=True).                *)
check_storage_space(dir, parent_dir, space_check) ==
    [performed |-> Truthy(space_check), folder |-> size_available(dir, parent_dir)]

(* main, lines 1437-1448: the sanity check, check_and_create_install_folder *)
(* and check_storage_space.  The call passes (skip-space-check, dir,       *)
(* parent_dir) to the parameters (_dir, parent_dir, space_check): the      *)
(* check is made whenever parent_dir is a non-empty string, as it always   *)
(* is.                                                                     *)
MainChecks ==
    /\ pc = "main"
    /\ IF run.opts.git_repo = <<>> \/ run.opts.branch = ""
       THEN Exit(ExitFail) /\ fs' = fs /\ run' = run
       ELSE /\ fs' = [fs EXCEPT !.exists = TRUE]
            /\ LET c == check_storage_space(BoolStr(run.opts.skip_space_check),
                                             "dir", "parent_dir")
               IN  IF c.performed
                   THEN \E low_space \in BOOLEAN :
                        run' = [run EXCEPT !.stages = @ \o <<"space_check">>
                                              \o (IF low_space THEN <<"countdown">> ELSE <<>>),
                                           !.space_folder = c.folder]
                   ELSE run' = run
            /\ pc' = "update"
            /\ exitCode' = exitCode
    /\ UNCHANGED <<values, verbosity, cfg, perm, deps, acq, ops, args, links>>

(* Line 1449: the call of update_kohya_ss.                                 *)
CallUpdate ==
    /\ pc = "update"
    /\ acq' = [NoAcq EXCEPT !.called = TRUE, !.calls = 1,
                            !.git_repo = run.opts.git_repo, !.branch = run.opts.branch,
                            !.update = run.opts.update, !.pre = fs]
    /\ Stage("acquire")
    /\ pc' = "uk_start"
    /\ UNCHANGED <<exitCode, values, verbosity, cfg, perm, deps, fs, ops, args, links>>

(* Lines 1449-1459, 1615-1619: a false result ends main without an exit    *)
(* call, so the script runs off its end; an exception that leaves          *)
(* update_kohya_ss is not caught and ends the interpreter with status 1.   *)
MutProceedAlways(ret) == TRUE

(* if update_kohya_ss(...): the truth of the value returned.               *)
Proceed(ret) == ret = "true"

AfterUpdate ==
    /\ pc = "uk_ret"
    /\ run.started
    /\ run' = [run EXCEPT !.update_result = acq.ret]
    /\ IF acq.ret = "raised" THEN Exit(ExitFail)
       ELSE IF Proceed(acq.ret) THEN pc' = "brew" /\ exitCode' = exitCode
       ELSE Exit(ExitOK)
    /\ UNCHANGED <<values, verbosity, cfg, perm, deps, fs, acq, ops, args, links>>

(* Line 1450, brew_install_tensorflow_deps: True off macOS; on macOS False *)
(* without Homebrew or when brew install fails.  False ends main like a    *)
(* false update result.  os_info, computed at line 1556, is first          *)
(* consulted here.                                                         *)
Brew ==
    /\ pc = "brew"
    /\ \E platform \in RunPlatforms :
        \E brew_ok \in IF platform = "Linux" THEN {TRUE} ELSE BOOLEAN :
            /\ deps' = [deps EXCEPT !.env.platform = platform]
            /\ run' = [run EXCEPT !.stages = Append(@, "brew"), !.brew_ok = brew_ok]
            /\ IF brew_ok THEN pc' = "deps" /\ exitCode' = exitCode ELSE Exit(ExitOK)
    /\ UNCHANGED <<values, verbosity, cfg, perm, fs, acq, ops, args, links>>

(* Lines 1451-1452. *)
InstallStage ==
    /\ pc = "deps"
    /\ LET r == install_python_dependencies(deps.env, deps.flag.exists, run.opts.update,
                                            run.opts.repair, run.opts.interactive, "1", "none")
       IN  deps' = [deps EXCEPT
                       !.clock = @ + 1,
                       !.flag = IF r.wrote THEN [exists |-> TRUE, stamp |-> deps.clock + 1]
                                ELSE @,
                       !.last = [called |-> TRUE, update |-> run.opts.update,
                                 repair |-> run.opts.repair, flagBefore |-> deps.flag,
                                 ops |-> r.ops, wrote |-> r.wrote, error |-> r.error,
                                 fault |-> "none", interactive |-> run.opts.interactive]]
    /\ Stage("install_dependencies")
    /\ pc' = "links"
    /\ UNCHANGED <<exitCode, values, verbosity, cfg, perm, fs, acq, ops, args, links>>

(* Lines 1453-1459: setup_file_links, configure_accelerate, then the GUI   *)
(* or, with --setup-only, exit(0).  The runs modelled are not on Windows   *)
(* and have runpod unset, where setup_file_links changes nothing.          *)
FinishSetup ==
    /\ pc = "links"
    /\ run' = [run EXCEPT !.stages = @ \o <<"file_links", "accelerate">>]
    /\ IF run.opts.setup_only THEN Exit(ExitOK) ELSE pc' = "launch" /\ exitCode' = exitCode
    /\ UNCHANGED <<values, verbosity, cfg, perm, deps, fs, acq, ops, args, links>>

(* launch_kohya_gui: outside a container the venv must exist; kohya_gui.py *)
(* must exist; the child runs with check=True.  KeyboardInterrupt while it *)
(* runs gives sys.exit(0); a non-zero child exit raises CalledProcessError, *)
(* which nothing catches.                                                  *)
MutLaunchExitAlwaysOK(child) == ExitOK

LaunchExit(child) == IF child = "nonzero" THEN ExitFail ELSE ExitOK

Launch ==
    /\ pc = "launch"
    /\ IF (~run.in_container /\ ~fs.venv) \/ fs.files["kohya_gui.py"] = "none"
       THEN Exit(ExitFail) /\ run' = run
       ELSE \E child \in {"zero", "nonzero", "interrupt"} :
            /\ run' = [run EXCEPT !.stages = Append(@, "launch"), !.child = child]
            /\ Exit(LaunchExit(child))
    /\ UNCHANGED <<values, verbosity, cfg, perm, deps, fs, acq, ops, args, links>>

Next ==
    \/ ParseArgs \/ LogsDir \/ MutuallyExclusive \/ Prerequisites \/ CreateVenv
    \/ Dispatch \/ MainChecks \/ CallUpdate \/ UpdateSteps \/ AfterUpdate
    \/ Brew \/ InstallStage \/ FinishSetup \/ Launch

Spec == Init /\ [][Next]_vars

----------------------------------------------------------------------------
(* C1.  Every value handed to the verbosity option resolves as the spec    *)
(* says: a bare non-negative integer string yields that integer, and a run *)
(* of N >= 1 marker characters 'v' yields level N (--verbosity vvv is 3).  *)
C1_VerbosityResolves ==
    pc = "v_done" =>
        /\ (IsIntString(values.s) /\ values.s[1] # "-") =>
               (exitCode = NoExit /\ verbosity = DigitsValue(values.s))
        /\ (Len(values.s) >= 1 /\ AllIn(values.s, {"v"})) =>
               (exitCode = NoExit /\ verbosity = Len(values.s))

(* A bare integer has been resolved to itself.                             *)
C1_IntegerResolved ==
    pc = "v_done" /\ values.s = <<"1", "7">> /\ verbosity = 17 /\ exitCode = NoExit

(* C10.  Configuration files merge in increasing priority: a key of the    *)
(* --file document overrides every discovered file, and among discovered   *)
(* files the one latest in the search path wins.                           *)
LastDefining(k) ==
    CHOOSE i \in 1..NLocations :
        /\ Defines(cfg.found[i], k)
        /\ \A j \in 1..NLocations : Defines(cfg.found[j], k) => j <= i

C10_LaterOverridesEarlier ==
    pc = "cfg_done" =>
        \A k \in Keys :
            /\ (cfg.config_file.given /\ Defines(cfg.config_file.file, k)) =>
                   (k \in DOMAIN cfg.result.doc
                      /\ cfg.result.doc[k] = cfg.config_file.file.doc[k])
            /\ (~(cfg.config_file.given /\ Defines(cfg.config_file.file, k))
                  /\ \E i \in 1..NLocations : Defines(cfg.found[i], k)) =>
                   (k \in DOMAIN cfg.result.doc
                      /\ cfg.result.doc[k] = cfg.found[LastDefining(k)].doc[k])

(* C7.  Permission normalization only adds bits: for the file visited,     *)
(* pre is a subset of post, and the bits added lie in the required set of  *)
(* the file's class: rwx for all on executables and scripts, rw for all    *)
(* (no execute bit) on every other file.                                   *)
C7_OnlyAddsRequiredBits ==
    perm.last.visited =>
        /\ perm.last.pre \subseteq perm.last.post
        /\ (perm.last.post \ perm.last.pre) \subseteq PermBits
        /\ ~perm.last.isExec => (perm.last.post \ perm.last.pre) \cap ExecBits = {}

(* A file of the non-executable class had bits missing and chmod widened   *)
(* it while it kept a bit outside the required set.                        *)
C7_Widened ==
    /\ perm.last.visited
    /\ ~perm.last.isExec
    /\ perm.last.pre = {"S_IRUSR", "S_IXUSR"}
    /\ perm.last.post = (PermBits \ ExecBits) \cup {"S_IXUSR"}

(* C6.  With the marker present and update and repair both false the       *)
(* installer issues no package operation and leaves the marker as it was;  *)
(* with repair set it does not skip: it issues package operations, pip's   *)
(* upgrade first, even though the marker exists.                           *)
C6_SkipOnlyWithoutUpdateOrRepair ==
    deps.last.called =>
        /\ (deps.last.flagBefore.exists /\ ~deps.last.update /\ ~deps.last.repair) =>
               (deps.last.ops = <<>> /\ deps.flag = deps.last.flagBefore)
        /\ deps.last.repair =>
               (deps.last.ops # <<>> /\ deps.last.ops[1] = Op("pip_upgrade", "pip"))

(* A repair run with the marker present reinstalled the manifest and wrote *)
(* the marker anew.                                                        *)
C6_RepairRanDespiteMarker ==
    /\ deps.last.called /\ deps.last.repair /\ deps.last.flagBefore.exists
    /\ \E i \in 1..Len(deps.last.ops) : deps.last.ops[i] = Op("pip_install", "pkg")
    /\ deps.flag.stamp = deps.clock

Issued(op) == \E i \in 1..Len(ops) : ops[i] = op
Returned == pc = "uk_ret" /\ acq.called

(* C3 as claimed.  With VCS metadata present and update not requested,     *)
(* every call reports success, issues no pull, clone or archive download,  *)
(* and leaves the target directory unchanged.                              *)
C3_AlwaysSkipped ==
    (Returned /\ acq.pre.git /\ ~acq.update) =>
        /\ acq.ret = "true"
        /\ ~Issued(Op("git", "pull")) /\ ~Issued(Op("git", "clone"))
        /\ ~Issued(Op("http", "archive_download"))
        /\ fs = acq.pre

(* C3 as amended.  With VCS metadata present and update not requested,     *)
(* every call issues no pull, clone, release query or archive download and *)
(* leaves the target directory unchanged; it reports success whenever git  *)
(* is found and the source is an https URL or a local directory, and it    *)
(* reports failure when git is not found or the source is unsupported.     *)
C3_SkippedWhenGitUsable ==
    (Returned /\ acq.pre.git /\ ~acq.update) =>
        /\ ~Issued(Op("git", "pull")) /\ ~Issued(Op("git", "clone"))
        /\ ~Issued(Op("http", "release_query"))
        /\ ~Issued(Op("http", "archive_download"))
        /\ fs = acq.pre
        /\ (acq.probe = "ok" /\ Scheme(acq.git_repo) \in {"https", "local"}) => acq.ret = "true"
        /\ (acq.probe = "notfound" \/ (acq.probe = "ok" /\ Scheme(acq.git_repo) = "invalid"))
              => acq.ret = "false"

(* The second call in a row on a checkout has been skipped.                *)
C3_SkippedTwice ==
    /\ Returned /\ acq.calls = 2 /\ acq.pre.git /\ ~acq.update
    /\ acq.ret = "true" /\ acq.pre.files["kohya_gui.py"] = "user" /\ fs = acq.pre

(* C4.  With uncommitted local modifications and update requested, every   *)
(* call reports failure (an exception that leaves the routine counts as a  *)
(* failure) and performs no pull, clone or archive copy, whatever git's    *)
(* availability, the status query's outcome, the source and the branch.    *)
C4_NeverOverwritesLocalChanges ==
    (Returned /\ acq.pre.dirty /\ acq.update) =>
        /\ acq.ret \in {"false", "raised"}
        /\ ~Issued(Op("git", "pull")) /\ ~Issued(Op("git", "clone"))
        /\ ~Issued(Op("fs", "archive_copy"))

(* C5.  The archive fallback issues its release query and download only    *)
(* for the canonical default source and the default branch; for any other  *)
(* source or branch a call that reaches the fallback reports failure.      *)
C5_FallbackOnlyForDefaults ==
    /\ (Issued(Op("http", "release_query")) \/ Issued(Op("http", "archive_download")))
          => (acq.git_repo = DefaultRepo /\ acq.branch = DefaultBranch)
    /\ (Returned /\ acq.fallback
          /\ (acq.git_repo # DefaultRepo \/ acq.branch # DefaultBranch))
          => acq.ret = "false"

(* C2.  A verbosity value that is neither an integer nor a run of marker   *)
(* characters, or that is a negative integer, ends the process with status *)
(* 1 before any stage runs: nothing is created in the target directory, no *)
(* stage is entered and no operation is issued.                            *)
Rejectable(s) ==
    \/ ~IsIntString(s) /\ HasNonMarker(s)
    \/ IsIntString(s) /\ s[1] = "-" /\ DigitsValue(Tail(s)) > 0

C2_InvalidVerbosityExitsFirst ==
    (run.started /\ pc # "start" /\ values.given /\ Rejectable(values.s)) =>
        /\ pc = "exited" /\ exitCode = ExitFail
        /\ run.stages = <<>> /\ ops = <<>> /\ ~acq.called /\ ~deps.last.called
        /\ fs = run.dir0

(* A negative level has been rejected.                                     *)
C2_NegativeRejected ==
    /\ run.started /\ pc = "exited" /\ exitCode = ExitFail
    /\ values = Given(<<"-", "1">>)

(* C8.  A complete run with the target directory absent at the start, the  *)
(* default source and branch, update unset and the default log directory   *)
(* creates the directory, clones into it and has acquisition report        *)
(* success (git being installed).                                          *)
FreshInstallRun ==
    /\ run.started /\ pc = "exited"
    /\ run.dir0 = AbsentDir
    /\ run.opts.git_repo = DefaultRepo /\ run.opts.branch = DefaultBranch
    /\ ~run.opts.update /\ ~run.opts.log_dir_given
    /\ acq.called /\ acq.probe = "ok"

C8_FreshInstallClones ==
    FreshInstallRun =>
        /\ fs.exists
        /\ Issued(Op("git", "clone"))
        /\ run.update_result = "true"

(* C9.  When update_kohya_ss reports failure, or the Homebrew step fails,  *)
(* the process ends with status 1, never 0.                                *)
C9_PipelineFailureExitsOne ==
    (run.started /\ pc = "exited" /\ (run.update_result = "false" \/ ~run.brew_ok)) =>
        exitCode = ExitFail

(* C11.  After parse_args every option has the value chosen by the         *)
(* priority default < configuration file < command line: an option given   *)
(* on the command line has the command-line value (a flag given is         *)
(* enabled), an option not given has a configuration value if a record     *)
(* names it and the built-in default otherwise; records that name no       *)
(* option change nothing.  Command lines argparse refuses are left out.    *)
ConfigValues(o) ==
    LET all == args.config_data.setup_arguments \o args.config_data.kohya_gui_arguments
    IN  {all[i].value : i \in {j \in 1..Len(all) : Lower(all[j].name) = o}}

C11_PriorityOrder ==
    (pc = "pa_done" /\ ~args.error) =>
        \A o \in OptionNames :
            IF args.cli[o].given
            THEN args.ns[o] = (IF args.cli[o].arg = "" THEN "True" ELSE args.cli[o].arg)
            ELSE IF ConfigValues(o) # {}
            THEN args.ns[o] \in ConfigValues(o)
            ELSE args.ns[o] = BuiltinDefault(o)

(* C12.  With both 'setup only' and 'no setup' set, the run is a fatal     *)
(* configuration error: it ends with status 1, and it never creates the    *)
(* venv, enters a stage, calls update_kohya_ss or the installer, or        *)
(* launches the GUI.                                                       *)
C12_BothSetIsFatal ==
    (run.started /\ run.opts.no_setup /\ run.opts.setup_only) =>
        /\ pc \in {"start", "logs", "exclusive", "exited"}
        /\ pc = "exited" => exitCode = ExitFail
        /\ run.stages = <<>> /\ ops = <<>>
        /\ ~acq.called /\ ~deps.last.called
        /\ fs.venv = run.dir0.venv /\ run.child = "none"

(* A run with an accepted verbosity was ended by the exclusion test, after *)
(* the log directory was made.                                             *)
C12_ExclusionExit ==
    /\ run.started /\ run.opts.no_setup /\ run.opts.setup_only
    /\ values = Given(<<"v", "v", "v">>) /\ verbosity = 4
    /\ pc = "exited" /\ exitCode = ExitFail
    /\ fs.logs /\ ~run.dir0.logs

InStages(name) == \E i \in 1..Len(run.stages) : run.stages[i] = name

(* C13.  With --skip-space-check set the free-space check and its warning  *)
(* countdown are never performed; without it the check is performed, on    *)
(* the installation directory, before update_kohya_ss is called.           *)
C13_SkipSpaceCheckHonoured ==
    run.started =>
        /\ run.opts.skip_space_check => (~InStages("space_check") /\ ~InStages("countdown"))
        /\ (~run.opts.skip_space_check /\ acq.called) =>
               (InStages("space_check") /\ run.space_folder = "dir")

(* C14.  With --no-setup set and setup-only unset the run never calls      *)
(* update_kohya_ss, the installer, the library linking or the accelerate   *)
(* configuration (nor the checks of main that precede them); it launches   *)
(* the GUI and ends with status 0 once the child has exited normally.      *)
C14_NoSetupGoesToLaunch ==
    (run.started /\ run.opts.no_setup /\ ~run.opts.setup_only) =>
        /\ ~acq.called /\ ops = <<>> /\ ~deps.last.called
        /\ ~InStages("acquire") /\ ~InStages("brew") /\ ~InStages("install_dependencies")
        /\ ~InStages("file_links") /\ ~InStages("accelerate")
        /\ pc \notin {"main", "update", "uk_start", "brew", "deps", "links"}
        /\ run.child = "zero" => (pc = "exited" /\ exitCode = ExitOK)

(* A --no-setup run launched the GUI, whose child exited normally.         *)
C14_LaunchedWithoutSetup ==
    /\ run.started /\ run.opts.no_setup /\ ~run.opts.setup_only
    /\ InStages("launch") /\ run.child = "zero"
    /\ pc = "exited" /\ exitCode = ExitOK

(* C15.  An interruption while the GUI child runs ends the launcher with   *)
(* status 0; a child that exits non-zero without interruption ends it with *)
(* a non-zero status, in the setup path and in the --no-setup path alike.  *)
C15_ChildExitPropagates ==
    (run.started /\ pc = "exited" /\ InStages("launch")) =>
        /\ run.child = "interrupt" => exitCode = ExitOK
        /\ run.child = "nonzero" => exitCode \notin {ExitOK, NoExit}

(* After a complete setup the GUI child exited non-zero and the launcher   *)
(* ended with status 1.                                                    *)
C15_ChildFailedAfterSetup ==
    /\ run.started /\ pc = "exited" /\ exitCode = ExitFail
    /\ InStages("install_dependencies") /\ InStages("launch")
    /\ run.child = "nonzero"

StageBefore(first, i) == \E j \in 1..(i - 1) : run.stages[j] = first

(* C16.  In a run that performs setup the stages come in the order         *)
(* acquisition, dependency installation, environment repair, launch: no    *)
(* permission normalization or library linking starts before the installer *)
(* has returned, and the installer does not start before update_kohya_ss   *)
(* has returned.                                                           *)
C16_StageOrder ==
    (run.started /\ ~SkipSetup(run.opts.no_setup, run.opts.setup_only)) =>
        \A i \in 1..Len(run.stages) :
            /\ run.stages[i] \in {"check_permissions", "file_links"} =>
                   (StageBefore("install_dependencies", i) /\ deps.last.called)
            /\ run.stages[i] = "install_dependencies" =>
                   (StageBefore("acquire", i) /\ run.update_result # "none")
            /\ run.stages[i] = "launch" => StageBefore("file_links", i)

(* C17.  When update_kohya_ss reports failure, no later stage runs: no     *)
(* Homebrew step, dependency installation, library linking, accelerate     *)
(* configuration or GUI launch; and a setup run launches the GUI only      *)
(* after acquisition reported success.                                     *)
C17_FailedAcquisitionStopsPipeline ==
    run.started =>
        /\ run.update_result \in {"false", "raised"} =>
               /\ pc = "exited" /\ ~deps.last.called /\ run.child = "none"
               /\ ~InStages("brew") /\ ~InStages("install_dependencies")
               /\ ~InStages("file_links") /\ ~InStages("accelerate") /\ ~InStages("launch")
        /\ (~SkipSetup(run.opts.no_setup, run.opts.setup_only) /\ InStages("launch")) =>
               run.update_result = "true"

(* Acquisition reported failure after trying the archive fallback, and the *)
(* run ended there.                                                        *)
C17_StoppedAfterFailedFallback ==
    /\ run.started /\ pc = "exited" /\ run.update_result = "false"
    /\ Issued(Op("http", "archive_download")) /\ run.stages[Len(run.stages)] = "acquire"

Prompts == Cardinality({i \in 1..Len(ops) : ops[i] = Op("prompt", "credentials")})

(* C18.  A call of update_kohya_ss makes at most 4 VCS attempts; an        *)
(* attempt after the first follows an authentication failure (and its      *)
(* prompt); credentials are prompted only between two attempts, so every   *)
(* prompt is followed by another attempt; any other VCS error ends the VCS *)
(* path at once and passes control to the archive-fallback test.           *)
C18_RetryPolicy ==
    acq.called =>
        /\ acq.tries <= 4
        /\ acq.tries <= Prompts + 1
        /\ Returned => Prompts <= acq.tries - 1 \/ acq.tries = 0

(* C19.  The venv subfolder is preserved across a fresh clone: a call that *)
(* found venv in the target directory and took the clone path returns with *)
(* venv in the directory again, whether the clone succeeded or failed.     *)
C19_VenvPreservedAcrossClone ==
    (Returned /\ acq.pre.venv /\ Issued(Op("git", "clone"))) => fs.venv

(* C20.  Without VCS metadata, with the directory holding something other  *)
(* than just venv (a single entry that is not venv included) and update    *)
(* not requested, a call performs no clone, pull or archive download,      *)
(* leaves the directory unchanged, and does not report success.            *)
OnlyVenv(d) == ListdirLen(d) = 1 /\ d.venv

C20_NonEmptyWithoutUpdateIsNoOp ==
    (Returned /\ acq.pre.exists /\ ~acq.pre.git /\ ~acq.update
        /\ ListdirLen(acq.pre) >= 1 /\ ~OnlyVenv(acq.pre)) =>
        /\ ~Issued(Op("git", "clone")) /\ ~Issued(Op("git", "pull"))
        /\ ~Issued(Op("http", "archive_download"))
        /\ fs = acq.pre
        /\ acq.ret # "true"

(* C21.  update_kohya_ss never raises past its own boundary: called on an  *)
(* existing directory, whatever the outcome of the git probe, the URL      *)
(* scheme, the VCS operations and the downloads, it returns a success flag *)
(* to its caller.                                                          *)
C21_NeverRaises ==
    (Returned /\ acq.pre.exists) => acq.ret \in {"true", "false"}

(* C22.  A successful archive fallback changes only paths that occur in    *)
(* the archive: the step that copies the extracted archive leaves venv,    *)
(* .git, the logs and every file not in the archive as they were, and      *)
(* every file of the archive ends up in the directory with the archive's   *)
(* content.                                                                *)
C22_ArchiveCopyFrame ==
    [][(pc = "uk_download" /\ acq'.ret = "true") =>
          /\ fs'.exists = fs.exists /\ fs'.venv = fs.venv /\ fs'.git = fs.git
          /\ fs'.logs = fs.logs
          /\ \A f \in FileNames :
                fs'.files[f] = IF f \in RepoFiles THEN "zip" ELSE fs.files[f]]_vars

(* An update without git copied the archive over a directory holding venv  *)
(* and a file of the user that is not in the archive.                      *)
C22_CopiedOverUserTree ==
    /\ Returned /\ acq.ret = "true" /\ Issued(Op("fs", "archive_copy"))
    /\ acq.pre.venv /\ acq.pre.files["notes.txt"] = "user"
    /\ acq.pre.files["kohya_gui.py"] = "user"
    /\ fs.venv /\ fs.files["notes.txt"] = "user" /\ fs.files["kohya_gui.py"] = "zip"

(* C23.  At every verbosity level the installer installs the manifest one  *)
(* line per package-manager invocation, never as a single batch.           *)
C23_NeverBatchInstall ==
    deps.last.called =>
        \A i \in 1..Len(deps.last.ops) : deps.last.ops[i].op # "pip_install_batch"

(* C24.  A call of the installer in which an exception occurs returns      *)
(* without writing the marker, and the call that follows it performs the   *)
(* installation again rather than skipping, even with update and repair    *)
(* unset.                                                                  *)
C24_ErrorForcesRetry ==
    [][deps'.clock = deps.clock + 1 =>
          /\ deps'.last.error => (~deps'.last.wrote /\ deps'.flag = deps.flag)
          /\ (deps.last.called /\ deps.last.error) => deps'.last.ops # <<>>]_vars

(* C25.  A call of the installer that is not skipped and in which a        *)
(* package installation exits non-zero, or which finds no requirements     *)
(* file, does not write the marker.                                        *)
C25_MarkerOnlyOnCompletion ==
    (/\ deps.last.called
     /\ ~SkipInstall(deps.last.flagBefore.exists, deps.last.update, deps.last.repair)
     /\ \/ ~deps.env.requirements.exists
        \/ /\ deps.last.fault = "pip_nonzero"
           /\ \E i \in 1..Len(deps.last.ops) :
                 deps.last.ops[i].op \in {"pip_install", "pip_install_batch"})
       => ~deps.last.wrote

(* C26.  On Windows, when torch is (re)installed without interactive mode  *)
(* and no subprocess fails, the first generation's torch is installed,     *)
(* no exception occurs, the manifest is installed and the marker written.  *)
C26_WindowsDefaultProceeds ==
    (/\ deps.last.called
     /\ ~SkipInstall(deps.last.flagBefore.exists, deps.last.update, deps.last.repair)
     /\ deps.env.requirements.exists
     /\ TorchReinstall(deps.env, deps.last.update, deps.last.repair)
     /\ ~deps.last.interactive
     /\ deps.last.fault = "none")
       => /\ ~deps.last.error
          /\ deps.last.wrote
          /\ \E i \in 1..Len(deps.last.ops) : deps.last.ops[i] = Op("pip_install", "torch1")
          /\ \E i \in 1..Len(deps.last.ops) :
                deps.last.ops[i] \in {Op("pip_install", "pkg"),
                                      Op("pip_install_batch", "temp_requirements")}

(* C27.  The manifest assembled from the requirements file holds every     *)
(* line that is neither a comment nor blank, in the original order, and    *)
(* nothing else from the file; a line directly after the marker comment    *)
(* has the placeholder replaced by the installation directory.  Observed   *)
(* on Linux outside runpod, where the packages installed one by one are    *)
(* exactly the manifest.                                                   *)
RECURSIVE ManifestAsClaimed(_, _)
ManifestAsClaimed(lines, after_marker) ==
    IF lines = <<>> THEN <<>>
    ELSE LET line == Head(lines) IN
         IF IsCommentLine(line) \/ IsBlankLine(line)
         THEN ManifestAsClaimed(Tail(lines), line = "# kohya_ss library")
         ELSE <<IF after_marker THEN ReplaceDots(line) ELSE line>>
              \o ManifestAsClaimed(Tail(lines), FALSE)

IsPipInstall(o) == o.op = "pip_install"

C27_ManifestAssembly ==
    (/\ deps.last.called
     /\ ~SkipInstall(deps.last.flagBefore.exists, deps.last.update, deps.last.repair)
     /\ deps.env.requirements.exists
     /\ deps.env.platform = "Linux" /\ ~deps.env.runpod /\ deps.env.verbosity < 3
     /\ ~deps.last.error)
       => SelectSeq(deps.last.ops, IsPipInstall)
            = MapOps("pip_install", ManifestAsClaimed(deps.env.requirements.lines, FALSE))

(* C28.  When os.chmod is denied on a file: for a file that is not part of *)
(* the interpreter (neither under bin nor named python) the walk goes on   *)
(* and no failure is reported because of it; for the interpreter itself    *)
(* (under bin and named python) the walk stops and the result is False.    *)
C28_DenialPolicy ==
    (perm.last.visited /\ perm.last.denied) =>
        LET f == VenvWalk[perm.last.file]
        IN  /\ (~InBinFolder(f) /\ ~PythonInName(f)) => (pc = "cp_walk" \/ perm.result)
            /\ (InBinFolder(f) /\ PythonInName(f)) => (pc = "cp_done" /\ ~perm.result)

(* C29.  setup_file_links creates or repairs links and extends             *)
(* LD_LIBRARY_PATH only when runpod is set and the process is inside a     *)
(* container; otherwise every link path and the search path are as before. *)
C29_LinksOnlyInContainer ==
    (pc \in {"sfl_link", "sfl_path", "sfl_done", "sfl_raised"}
       /\ ~(links.runpod /\ links.inside))
      => (links.node = links.pre /\ links.ld_path = <<>>)

(* C30.  A create_symlinks call whose target does not exist changes        *)
(* nothing at the link path and returns without raising; a call that       *)
(* changes the link path had an existing target and leaves a link to it.   *)
C30_LinkOnlyToExistingTarget ==
    links.last.pair # 0 =>
        /\ ~links.target[links.last.pair] =>
              (links.last.post = links.last.pre /\ ~links.last.raised)
        /\ links.last.post # links.last.pre =>
              (links.target[links.last.pair] /\ links.last.post = "link_target")

====
